---- MODULE Spec2Model ----
(***************************************************************************)
(* The CDC search indexing worker of crates/search-worker: the consumer    *)
(* loop, the pool tasks it spawns, the periodic offset flush, the shutdown *)
(* listener and consumer_shutdown, as one state machine.                   *)
(*                                                                         *)
(* The worker consumes one topic, so a (topic, partition) key of the       *)
(* source is a partition here.  Offsets are counted from the position the  *)
(* worker started at.  The runtime is multi-threaded: every access to      *)
(* shared state is a step of its own.  A payload is opaque text until      *)
(* usernames_message_processor parses it, so what it says is chosen at     *)
(* the step in which the processor starts.                                 *)
(***************************************************************************)
EXTENDS Integers, FiniteSets, Sequences, TLC

\* ---- bounds ----
NumPartitions == 1
\* messages the broker delivers in the worker's lifetime, over all partitions
MaxMessages == 2
\* Semaphore::new(100), scaled down
SemaphoreCapacity == 1
\* max_shutdown_wait (60 s) in units of the 500 ms join timeout, scaled down from 120
DrainDeadlineTicks == 1

Partitions == 0 .. (NumPartitions - 1)
Offsets == 0 .. (MaxMessages - 1)
Keys == Partitions \X Offsets
NoMsg == <<-1, -1>>

\* what a UTF-8 payload turns out to be when the processor parses it.  The row
\* primary key is the partition key: the upserts and deletes of one partition
\* are taken to carry the same document id
Payloads == {"heartbeat", "invalid", "upsert", "delete"}
DocOps == {"upsert", "delete"}

VARIABLES
  pos,            \* broker: next offset to deliver, per partition
  status,         \* per (partition, offset): "none", "inflight" once received, "terminal"
  payload,        \* per (partition, offset): the operation the indexer is executing
  committed,      \* broker: last commit position submitted, per partition
  maxCommitted,   \* highest commit position ever submitted, per partition
  consumerPc,     \* position of usernames_consumer
  cur,            \* the message the consumer loop is handling
  accepting,      \* task_accepting
  paused,         \* partitions paused by the shutdown listener
  wakeup,         \* the loop's Notified future has been woken
  join_set,       \* keys of the tasks in the JoinSet
  taskPc,         \* position of each spawned task
  permits,        \* available semaphore permits
  highest_offset, \* the offset map
  snapshot,       \* periodic_commit: snapshot_map
  periodicPc,     \* position of the periodic_commit task
  highestLock,    \* owner of the highest_offset mutex
  t2cLock,        \* owner of the topic_to_consumer mutex
  consumersLock,  \* owner of the consumers mutex
  listenerPc,     \* position of the shutdown_listener task
  mainPc,         \* position of run
  waited,         \* consumer_shutdown: waited, in 500 ms ticks
  joins,          \* consumer_shutdown: tasks joined by the drain loop
  drainStart,     \* size of the JoinSet when the drain loop started
  finalCommit,    \* outcome of the shutdown flush: "none", "empty", "ok", "err"
  flushed,        \* the commit positions the shutdown flush submitted
  mapped,         \* topic_to_consumer holds the topic the messages arrive on
  mBytes,         \* one delivery: msg.payload() is "null", "bad_utf8" or "text"
  mEnv,           \* one delivery: the text, as JSON or not and the fields it holds
  mMode,          \* one delivery: task_accepting when the message is received
  mPc,            \* one delivery: position in the handling of the message
  tries,          \* usernames_message_processor: tries
  backoff_ms,     \* usernames_message_processor: backoff_ms
  lastErr,        \* the error of the last failed step
  mResult,        \* what usernames_message_processor returned
  mLog,           \* one delivery: what the worker did, in order
  slept,          \* one delivery: the sleeps of the retry loop, in ms
  pollPc,         \* poll_task_until_complete: "idle", "loop" or "done"
  pollWaited,     \* poll_task_until_complete: waited, in ms
  pollRequests,   \* status requests sent for the task
  pollRetries,    \* counts of record_meili_retry
  pollLast,       \* the answer to the last status request
  pollResult,     \* what poll_task_until_complete returned
  pollMsg,        \* the message of the error it returned
  markMap,        \* mark_offset_processed: the map, keyed by (topic, partition)
  markPrev,       \* mark_offset_processed: the map before the last call
  markCall        \* mark_offset_processed: the (key, offset) of the last call

vars == <<pos, status, payload, committed, maxCommitted,
          consumerPc, cur, accepting, paused, wakeup, join_set, taskPc, permits,
          highest_offset, snapshot, periodicPc, highestLock, t2cLock,
          consumersLock, listenerPc, mainPc, waited, joins, drainStart,
          finalCommit, flushed, mapped, mBytes, mEnv, mMode, mPc, tries,
          backoff_ms, lastErr, mResult, mLog, slept, pollPc, pollWaited,
          pollRequests, pollRetries, pollLast, pollResult, pollMsg, markMap,
          markPrev, markCall>>

brokerVars == <<committed, maxCommitted>>
taskVars == <<join_set, taskPc, permits>>
periodicVars == <<snapshot, periodicPc>>
lockVars == <<highestLock, t2cLock, consumersLock>>
listenerVars == <<listenerPc, accepting, paused, wakeup>>
mainVars == <<mainPc, waited, joins, drainStart, finalCommit, flushed>>
msgVars == <<mBytes, mEnv, mMode, mPc, tries, backoff_ms, lastErr, mResult, mLog, slept>>
pollVars == <<pollPc, pollWaited, pollRequests, pollRetries, pollLast, pollResult, pollMsg>>
markVars == <<markMap, markPrev, markCall>>
controllerVars == <<pos, status, payload, brokerVars, consumerPc, cur, taskVars,
                    highest_offset, periodicVars, lockVars, listenerVars, mainVars,
                    mapped>>

EmptyMap == [p \in {} |-> 0]

Max(a, b) == IF a > b THEN a ELSE b

RECURSIVE Sum(_, _)
Sum(f, S) == IF S = {} THEN 0
             ELSE LET x == CHOOSE y \in S : TRUE IN f[x] + Sum(f, S \ {x})

\* the process is alive until run returns and main exits
Alive == mainPc # "stopped"

ControllerInit ==
  /\ pos = [p \in Partitions |-> 0]
  /\ status = [k \in Keys |-> "none"]
  /\ payload = [k \in Keys |-> "none"]
  /\ committed = [p \in Partitions |-> 0]
  /\ maxCommitted = [p \in Partitions |-> 0]
  /\ consumerPc = "ensure_primary"
  /\ cur = NoMsg
  /\ accepting = TRUE
  /\ paused = FALSE
  /\ wakeup = FALSE
  /\ join_set = {}
  /\ taskPc = [k \in Keys |-> "none"]
  /\ permits = SemaphoreCapacity
  /\ highest_offset = EmptyMap
  /\ snapshot = EmptyMap
  /\ periodicPc = "off"
  /\ highestLock = "free"
  /\ t2cLock = "free"
  /\ consumersLock = "free"
  /\ listenerPc = "off"
  /\ mainPc = "consumer"
  /\ waited = 0
  /\ joins = 0
  /\ drainStart = 0
  /\ finalCommit = "none"
  /\ flushed = EmptyMap

\* the fields of UserCDCMessage
Fields == {"key", "after", "before", "resolved"}

\* a text payload: JSON of the shape of the struct or not, and the fields that
\* are present (and not null) in it
Envelopes ==
  {[json |-> FALSE, fields |-> {}]} \cup [json : {TRUE}, fields : SUBSET Fields]

\* how one call of push_user_to_meili or delete_user_from_meili ends: the
\* engine task Succeeded, Failed or was Canceled, the submit was answered 4xx,
\* 429 or 5xx, the request failed, or the poll ran into max_wait
Outcomes ==
  {"succeeded", "failed", "canceled", "http_4xx", "http_429", "http_5xx",
   "net_error", "poll_timeout"}

max_retries == 3
InitialBackoffMs == 100
MaxBackoffMs == 5000

\* no single delivery is followed
MsgIdle ==
  /\ mBytes = "null"
  /\ mEnv = [json |-> FALSE, fields |-> {}]
  /\ mMode = "accepting"
  /\ mPc = "idle"
  /\ tries = 0
  /\ backoff_ms = InitialBackoffMs
  /\ lastErr = "none"
  /\ mResult = "none"
  /\ mLog = <<>>
  /\ slept = <<>>

\* no poll of a task is followed
PollIdle ==
  /\ pollPc = "idle"
  /\ pollWaited = 0
  /\ pollRequests = 0
  /\ pollRetries = 0
  /\ pollLast = "none"
  /\ pollResult = "none"
  /\ pollMsg = "none"

\* no call of mark_offset_processed is followed
MarkIdle ==
  /\ markMap = EmptyMap
  /\ markPrev = EmptyMap
  /\ markCall = <<>>

\* the topic the consumer subscribes to is the key of topic_to_consumer; the
\* messages carry that topic unless the configured topic is a pattern
Init ==
  /\ ControllerInit
  /\ mapped \in BOOLEAN
  /\ MsgIdle
  /\ PollIdle
  /\ MarkIdle

\* ---- offset map ----

\* MarkOffset that stores the offset of the call whatever the entry holds
MarkOffset_Overwrite(map, p, o) ==
  [q \in (DOMAIN map) \cup {p} |-> IF q = p THEN o ELSE map[q]]

\* mark_offset_processed: insert when offset > previous (absent = -1)
MarkOffset(map, p, o) ==
  LET prev == IF p \in DOMAIN map THEN map[p] ELSE -1
  IN IF o > prev
       THEN [q \in (DOMAIN map) \cup {p} |-> IF q = p THEN o ELSE map[q]]
       ELSE map

\* the re-merge loop of periodic_commit: max-merge snap into map
RECURSIVE MergeBack(_, _)
MergeBack(map, snap) ==
  IF DOMAIN snap = {} THEN map
  ELSE LET p == CHOOSE q \in DOMAIN snap : TRUE
           rest == [q \in (DOMAIN snap) \ {p} |-> snap[q]]
       IN MergeBack(MarkOffset(map, p, snap[p]), rest)

\* CommitList that submits the offset itself
CommitList_Raw(map) == [p \in DOMAIN map |-> map[p]]

\* the TopicPartitionList built from a map: partition -> offset + 1
CommitList(map) == [p \in DOMAIN map |-> map[p] + 1]

\* broker cursor after a commit of tpl
ApplyCommit(c, tpl) == [p \in Partitions |-> IF p \in DOMAIN tpl THEN tpl[p] ELSE c[p]]

\* a commit call: returns Ok and moves the cursor, or returns Err
Commit(tpl, ok) ==
  IF ok
    THEN /\ committed' = ApplyCommit(committed, tpl)
         /\ maxCommitted' = [p \in Partitions |->
                               Max(maxCommitted[p], ApplyCommit(committed, tpl)[p])]
    ELSE UNCHANGED <<committed, maxCommitted>>

\* consumer.commit_message(&msg, Async): position msg.offset + 1
CommitMessage(k, ok) == Commit([p \in {k[1]} |-> k[2] + 1], ok)

\* ---- message processor ----

\* results usernames_message_processor can return for a payload of this kind
ProcessorResults(kind) ==
  CASE kind = "heartbeat" -> {"ok"}
    [] kind = "invalid" -> {"err"}
    [] OTHER -> {"ok", "err"}

\* the message reached its terminal state; its payload is dropped
Finished(k) ==
  /\ status' = [status EXCEPT ![k] = "terminal"]
  /\ payload' = [payload EXCEPT ![k] = "none"]


\* ---- run: indexes_setup ----

\* IndexesSetup that starts the worker once the primary index is ensured
IndexesSetup_PrimaryOnly(ok) ==
  /\ consumerPc \in {"ensure_primary", "ensure_dlq"}
  /\ IF ~ok
       THEN consumerPc' = "failed" /\ UNCHANGED <<listenerPc, periodicPc>>
       ELSE consumerPc' = "select" /\ listenerPc' = "wait" /\ periodicPc' = "tick"
  /\ UNCHANGED <<pos, status, payload, brokerVars, cur, taskVars, highest_offset,
                 snapshot, lockVars, accepting, paused, wakeup, mainVars, mapped,
                 msgVars, pollVars, markVars>>

\* one ensure_index_exists of indexes_setup, the primary index first and its
\* DLQ mirror second: an error makes run return it; after the second success
\* run starts shutdown_listener and periodic_commit and enters the consumer loop
IndexesSetup(ok) ==
  /\ consumerPc \in {"ensure_primary", "ensure_dlq"}
  /\ IF ~ok
       THEN consumerPc' = "failed" /\ UNCHANGED <<listenerPc, periodicPc>>
       ELSE IF consumerPc = "ensure_primary"
         THEN consumerPc' = "ensure_dlq" /\ UNCHANGED <<listenerPc, periodicPc>>
         ELSE consumerPc' = "select" /\ listenerPc' = "wait" /\ periodicPc' = "tick"
  /\ UNCHANGED <<pos, status, payload, brokerVars, cur, taskVars, highest_offset,
                 snapshot, lockVars, accepting, paused, wakeup, mainVars, mapped,
                 msgVars, pollVars, markVars>>

\* ---- usernames_consumer ----

\* recv() returns the next message of partition p: the broker delivers in log order
Delivers(p) ==
  /\ Alive
  /\ consumerPc = "select"
  /\ ~paused
  /\ Sum(pos, Partitions) < MaxMessages

Deliver(p, st) ==
  /\ pos' = [pos EXCEPT ![p] = @ + 1]
  /\ status' = [status EXCEPT ![<<p, pos[p]>>] = st]
  \* the recv arm won the select: the Notified future is dropped
  /\ wakeup' = FALSE

\* a message without payload: committed at once, loop continues
ConsumerRecvEmpty(p, ok) ==
  /\ Delivers(p)
  /\ Deliver(p, "terminal")
  /\ CommitMessage(<<p, pos[p]>>, ok)
  /\ UNCHANGED <<payload, consumerPc, cur, taskVars, highest_offset, periodicVars,
                 lockVars, listenerPc, accepting, paused, mainVars, mapped, msgVars, pollVars, markVars>>

\* a payload that is not UTF-8: the loop awaits the DLQ publish
ConsumerRecvBadUtf8(p) ==
  /\ Delivers(p)
  /\ Deliver(p, "inflight")
  /\ cur' = <<p, pos[p]>>
  /\ consumerPc' = "dlq_utf8"
  /\ UNCHANGED <<payload, brokerVars, taskVars, highest_offset, periodicVars, lockVars,
                 listenerPc, accepting, paused, mainVars, mapped, msgVars, pollVars, markVars>>

\* send_utf8_error_to_dlq returned (published or not); commit_message; continue
ConsumerUtf8Dlq(ok) ==
  /\ Alive
  /\ consumerPc = "dlq_utf8"
  /\ Finished(cur)
  /\ CommitMessage(cur, ok)
  /\ cur' = NoMsg
  /\ consumerPc' = "select"
  /\ UNCHANGED <<pos, taskVars, highest_offset, periodicVars, lockVars, listenerVars,
                 mainVars, mapped, msgVars, pollVars, markVars>>

\* a UTF-8 payload, task_accepting read as true: the loop goes on to spawn
ConsumerRecvAccepting(p) ==
  /\ Delivers(p)
  /\ accepting
  /\ Deliver(p, "inflight")
  /\ cur' = <<p, pos[p]>>
  /\ consumerPc' = "spawn"
  /\ UNCHANGED <<payload, brokerVars, taskVars, highest_offset, periodicVars, lockVars,
                 listenerPc, accepting, paused, mainVars, mapped, msgVars, pollVars, markVars>>

\* a UTF-8 payload, task_accepting read as false: the processor starts inline
ConsumerRecvDraining(p, kind) ==
  /\ Delivers(p)
  /\ ~accepting
  /\ Deliver(p, "inflight")
  /\ payload' = [payload EXCEPT ![<<p, pos[p]>>] = kind]
  /\ cur' = <<p, pos[p]>>
  /\ consumerPc' = "inline"
  /\ UNCHANGED <<brokerVars, taskVars, highest_offset, periodicVars, lockVars,
                 listenerPc, accepting, paused, mainVars, mapped, msgVars, pollVars, markVars>>

\* join.lock().await.spawn(...): the task enters the JoinSet, not yet holding a permit
ConsumerSpawn ==
  /\ Alive
  /\ consumerPc = "spawn"
  /\ join_set' = join_set \cup {cur}
  /\ taskPc' = [taskPc EXCEPT ![cur] = "acquire"]
  /\ cur' = NoMsg
  /\ consumerPc' = "select"
  /\ UNCHANGED <<pos, status, payload, brokerVars, permits, highest_offset, periodicVars,
                 lockVars, listenerVars, mainVars, mapped, msgVars, pollVars, markVars>>

\* draining mode: the inline processor returned Ok; commit_message follows at once
ConsumerInlineOk(ok) ==
  /\ Alive
  /\ consumerPc = "inline"
  /\ "ok" \in ProcessorResults(payload[cur])
  /\ Finished(cur)
  /\ CommitMessage(cur, ok)
  /\ cur' = NoMsg
  /\ consumerPc' = "select"
  /\ UNCHANGED <<pos, taskVars, highest_offset, periodicVars, lockVars, listenerVars,
                 mainVars, mapped, msgVars, pollVars, markVars>>

\* draining mode: the inline processor returned Err; the DLQ publish returned
\* (published or not); commit_message
ConsumerInlineErr(ok) ==
  /\ Alive
  /\ consumerPc = "inline"
  /\ "err" \in ProcessorResults(payload[cur])
  /\ Finished(cur)
  /\ CommitMessage(cur, ok)
  /\ cur' = NoMsg
  /\ consumerPc' = "select"
  /\ UNCHANGED <<pos, taskVars, highest_offset, periodicVars, lockVars, listenerVars,
                 mainVars, mapped, msgVars, pollVars, markVars>>

\* recv() returned an error: the loop sleeps 1 s
ConsumerRecvErr ==
  /\ Alive
  /\ consumerPc = "select"
  /\ consumerPc' = "sleep"
  /\ wakeup' = FALSE
  /\ UNCHANGED <<pos, status, payload, brokerVars, cur, taskVars, highest_offset,
                 periodicVars, lockVars, listenerPc, accepting, paused, mainVars,
                 mapped, msgVars, pollVars, markVars>>

ConsumerSleepDone ==
  /\ Alive
  /\ consumerPc = "sleep"
  /\ consumerPc' = "select"
  /\ UNCHANGED <<pos, status, payload, brokerVars, cur, taskVars, highest_offset,
                 periodicVars, lockVars, listenerVars, mainVars, mapped, msgVars, pollVars, markVars>>

\* the notified() arm of the select: break; run goes on to consumer_shutdown
ConsumerBreak ==
  /\ Alive
  /\ consumerPc = "select"
  /\ wakeup
  /\ consumerPc' = "exited"
  /\ mainPc' = "drain"
  /\ drainStart' = Cardinality(join_set)
  /\ UNCHANGED <<pos, status, payload, brokerVars, cur, taskVars, highest_offset,
                 periodicVars, lockVars, listenerVars, waited, joins, finalCommit,
                 flushed, mapped, msgVars, pollVars, markVars>>

\* ---- the spawned task ----

\* TaskStart that does not wait for a permit
TaskStart_NoPermit(k, kind) ==
  /\ Alive
  /\ taskPc[k] = "acquire"
  /\ permits' = permits - 1
  /\ IF kind \in DocOps
       THEN /\ payload' = [payload EXCEPT ![k] = kind]
            /\ taskPc' = [taskPc EXCEPT ![k] = "index"]
            /\ UNCHANGED status
       ELSE /\ Finished(k)
            /\ taskPc' = [taskPc EXCEPT ![k] = "mark"]
  /\ UNCHANGED <<pos, brokerVars, consumerPc, cur, join_set, highest_offset,
                 periodicVars, lockVars, listenerVars, mainVars, mapped, msgVars, pollVars, markVars>>

\* semaphore_permit.await returned a permit and the processor parsed the payload:
\* a heartbeat returns Ok at once, an invalid envelope returns Err and the DLQ
\* publish follows, an upsert or delete goes to the indexer
TaskStart(k, kind) ==
  /\ Alive
  /\ taskPc[k] = "acquire"
  /\ permits > 0
  /\ permits' = permits - 1
  /\ IF kind \in DocOps
       THEN /\ payload' = [payload EXCEPT ![k] = kind]
            /\ taskPc' = [taskPc EXCEPT ![k] = "index"]
            /\ UNCHANGED status
       ELSE /\ Finished(k)
            /\ taskPc' = [taskPc EXCEPT ![k] = "mark"]
  /\ UNCHANGED <<pos, brokerVars, consumerPc, cur, join_set, highest_offset,
                 periodicVars, lockVars, listenerVars, mainVars, mapped, msgVars, pollVars, markVars>>

\* the indexer call with its retries returned: Ok after the engine applied the
\* operation, or Err, after which the DLQ publish returned (published or not)
TaskIndexed(k, res) ==
  /\ Alive
  /\ taskPc[k] = "index"
  /\ res \in ProcessorResults(payload[k])
  /\ Finished(k)
  /\ taskPc' = [taskPc EXCEPT ![k] = "mark"]
  /\ UNCHANGED <<pos, brokerVars, consumerPc, cur, join_set, permits, highest_offset,
                 periodicVars, lockVars, listenerVars, mainVars, mapped, msgVars, pollVars, markVars>>

\* TaskMark that records the offset while the indexer call runs
TaskMark_Early(k) ==
  /\ Alive
  /\ taskPc[k] \in {"index", "mark"}
  /\ highestLock = "free"
  /\ highest_offset' = MarkOffset(highest_offset, k[1], k[2])
  /\ taskPc' = [taskPc EXCEPT ![k] = "done"]
  /\ permits' = permits + 1
  /\ UNCHANGED <<pos, status, payload, brokerVars, consumerPc, cur, join_set,
                 periodicVars, lockVars, listenerVars, mainVars, mapped, msgVars, pollVars, markVars>>

\* TaskMark of a task that keeps its permit when it ends
TaskMark_Leak(k) ==
  /\ Alive
  /\ taskPc[k] = "mark"
  /\ highestLock = "free"
  /\ highest_offset' = MarkOffset(highest_offset, k[1], k[2])
  /\ taskPc' = [taskPc EXCEPT ![k] = "done"]
  /\ UNCHANGED <<pos, status, payload, brokerVars, consumerPc, cur, join_set, permits,
                 periodicVars, lockVars, listenerVars, mainVars, mapped, msgVars, pollVars, markVars>>

\* mark_offset_processed under the map's mutex; the task ends and drops its permit
TaskMark(k) ==
  /\ Alive
  /\ taskPc[k] = "mark"
  /\ highestLock = "free"
  /\ highest_offset' = MarkOffset(highest_offset, k[1], k[2])
  /\ taskPc' = [taskPc EXCEPT ![k] = "done"]
  /\ permits' = permits + 1
  /\ UNCHANGED <<pos, status, payload, brokerVars, consumerPc, cur, join_set,
                 periodicVars, lockVars, listenerVars, mainVars, mapped, msgVars, pollVars, markVars>>

\* ---- periodic_commit ----

\* a tick that finds the map empty: continue
PeriodicTickEmpty ==
  /\ Alive
  /\ periodicPc = "tick"
  /\ highestLock = "free"
  /\ highest_offset = EmptyMap
  /\ UNCHANGED vars

\* a tick that finds offsets: take(&mut *guard) under the map's mutex
PeriodicTake ==
  /\ Alive
  /\ periodicPc = "tick"
  /\ highestLock = "free"
  /\ highest_offset # EmptyMap
  /\ snapshot' = highest_offset
  /\ highest_offset' = EmptyMap
  /\ periodicPc' = "t2c"
  /\ UNCHANGED <<pos, status, payload, brokerVars, consumerPc, cur, taskVars, lockVars,
                 listenerVars, mainVars, mapped, msgVars, pollVars, markVars>>

\* topic_to_consumer.lock().await
PeriodicLockT2c ==
  /\ Alive
  /\ periodicPc = "t2c"
  /\ t2cLock = "free"
  /\ t2cLock' = "periodic"
  /\ periodicPc' = "consumers"
  /\ UNCHANGED <<pos, status, payload, brokerVars, consumerPc, cur, taskVars,
                 highest_offset, snapshot, highestLock, consumersLock, listenerVars,
                 mainVars, mapped, msgVars, pollVars, markVars>>

\* consumers.lock().await
PeriodicLockConsumers ==
  /\ Alive
  /\ periodicPc = "consumers"
  /\ consumersLock = "free"
  /\ consumersLock' = "periodic"
  /\ periodicPc' = "commit"
  /\ UNCHANGED <<pos, status, payload, brokerVars, consumerPc, cur, taskVars,
                 highest_offset, snapshot, highestLock, t2cLock, listenerVars,
                 mainVars, mapped, msgVars, pollVars, markVars>>

\* consumer.commit(&tpl, Async) returned Ok: both guards are dropped, next tick
PeriodicCommitOk ==
  /\ Alive
  /\ periodicPc = "commit"
  /\ mapped
  /\ Commit(CommitList(snapshot), TRUE)
  /\ snapshot' = EmptyMap
  /\ t2cLock' = "free"
  /\ consumersLock' = "free"
  /\ periodicPc' = "tick"
  /\ UNCHANGED <<pos, status, payload, consumerPc, cur, taskVars, highest_offset,
                 highestLock, listenerVars, mainVars, mapped, msgVars, pollVars, markVars>>

\* consumer.commit(&tpl, Async) returned Err: the re-merge needs the map's mutex
PeriodicCommitErr ==
  /\ Alive
  /\ periodicPc = "commit"
  /\ mapped
  /\ periodicPc' = "remerge"
  /\ UNCHANGED <<pos, status, payload, brokerVars, consumerPc, cur, taskVars,
                 highest_offset, snapshot, lockVars, listenerVars, mainVars, mapped,
                 msgVars, pollVars, markVars>>

\* topic_to_consumer_guard.get(&topic) is None: "Dropping offsets", no commit and
\* no re-merge; both guards are dropped, next tick
PeriodicDrop ==
  /\ Alive
  /\ periodicPc = "commit"
  /\ ~mapped
  /\ snapshot' = EmptyMap
  /\ t2cLock' = "free"
  /\ consumersLock' = "free"
  /\ periodicPc' = "tick"
  /\ UNCHANGED <<pos, status, payload, brokerVars, consumerPc, cur, taskVars,
                 highest_offset, highestLock, listenerVars, mainVars, mapped,
                 msgVars, pollVars, markVars>>

\* PeriodicRemerge that forgets the snapshot
PeriodicRemerge_Drop ==
  /\ Alive
  /\ periodicPc = "remerge"
  /\ highestLock = "free"
  /\ highest_offset' = highest_offset
  /\ snapshot' = EmptyMap
  /\ t2cLock' = "free"
  /\ consumersLock' = "free"
  /\ periodicPc' = "tick"
  /\ UNCHANGED <<pos, status, payload, brokerVars, consumerPc, cur, taskVars,
                 highestLock, listenerVars, mainVars, mapped, msgVars, pollVars, markVars>>

\* highest.lock().await, the snapshot is merged back, all guards are dropped
PeriodicRemerge ==
  /\ Alive
  /\ periodicPc = "remerge"
  /\ highestLock = "free"
  /\ highest_offset' = MergeBack(highest_offset, snapshot)
  /\ snapshot' = EmptyMap
  /\ t2cLock' = "free"
  /\ consumersLock' = "free"
  /\ periodicPc' = "tick"
  /\ UNCHANGED <<pos, status, payload, brokerVars, consumerPc, cur, taskVars,
                 highestLock, listenerVars, mainVars, mapped, msgVars, pollVars, markVars>>

\* ---- shutdown_listener ----
\* (a listener whose ctrl_c() returns an error ends without doing anything: it
\* behaves as one that never receives the signal)

\* the termination signal arrived: tx_metrics_shutdown.send(()) notifies the
\* watch channel
ListenerSignal ==
  /\ Alive
  /\ listenerPc = "wait"
  /\ listenerPc' = "store"
  /\ UNCHANGED <<pos, status, payload, brokerVars, consumerPc, cur, taskVars,
                 highest_offset, periodicVars, lockVars, accepting, paused, wakeup,
                 mainVars, mapped, msgVars, pollVars, markVars>>

\* ListenerStore that wakes the loop before the partitions are paused
ListenerStore_WakeFirst ==
  /\ Alive
  /\ listenerPc = "store"
  /\ accepting' = FALSE
  /\ wakeup' = (consumerPc = "select")
  /\ listenerPc' = "pause"
  /\ UNCHANGED <<pos, status, payload, brokerVars, consumerPc, cur, taskVars,
                 highest_offset, periodicVars, lockVars, paused, mainVars, mapped,
                 msgVars, pollVars, markVars>>

\* accepting.store(false, SeqCst)
ListenerStore ==
  /\ Alive
  /\ listenerPc = "store"
  /\ accepting' = FALSE
  /\ listenerPc' = "pause"
  /\ UNCHANGED <<pos, status, payload, brokerVars, consumerPc, cur, taskVars,
                 highest_offset, periodicVars, lockVars, paused, wakeup, mainVars,
                 mapped, msgVars, pollVars, markVars>>

\* consumers.lock().await; assignment() and pause() succeed or fail; guard dropped
ListenerPause(ok) ==
  /\ Alive
  /\ listenerPc = "pause"
  /\ consumersLock = "free"
  /\ paused' = ok
  /\ listenerPc' = "notify"
  /\ UNCHANGED <<pos, status, payload, brokerVars, consumerPc, cur, taskVars,
                 highest_offset, periodicVars, lockVars, accepting, wakeup, mainVars,
                 mapped, msgVars, pollVars, markVars>>

\* shutdown_notify.notify_waiters(): wakes the Notified future of a loop that is
\* in its select; no permit is stored for a loop that is anywhere else
ListenerNotify ==
  /\ Alive
  /\ listenerPc = "notify"
  /\ wakeup' = (consumerPc = "select")
  /\ listenerPc' = "done"
  /\ UNCHANGED <<pos, status, payload, brokerVars, consumerPc, cur, taskVars,
                 highest_offset, periodicVars, lockVars, accepting, paused, mainVars,
                 mapped, msgVars, pollVars, markVars>>

\* ---- consumer_shutdown ----

\* the drain loop finds the JoinSet empty
DrainEmpty ==
  /\ mainPc = "drain"
  /\ join_set = {}
  /\ mainPc' = "final_highest"
  /\ UNCHANGED <<pos, status, payload, brokerVars, consumerPc, cur, taskVars,
                 highest_offset, periodicVars, lockVars, listenerVars, waited, joins,
                 drainStart, finalCommit, flushed, mapped, msgVars, pollVars, markVars>>

\* DrainDeadline that gives up before the deadline
DrainDeadline_NoWait ==
  /\ mainPc = "drain"
  /\ join_set # {}
  /\ mainPc' = "final_highest"
  /\ UNCHANGED <<pos, status, payload, brokerVars, consumerPc, cur, taskVars,
                 highest_offset, periodicVars, lockVars, listenerVars, waited, joins,
                 drainStart, finalCommit, flushed, mapped, msgVars, pollVars, markVars>>

\* waited >= max_shutdown_wait with tasks left
DrainDeadline ==
  /\ mainPc = "drain"
  /\ join_set # {}
  /\ waited >= DrainDeadlineTicks
  /\ mainPc' = "final_highest"
  /\ UNCHANGED <<pos, status, payload, brokerVars, consumerPc, cur, taskVars,
                 highest_offset, periodicVars, lockVars, listenerVars, waited, joins,
                 drainStart, finalCommit, flushed, mapped, msgVars, pollVars, markVars>>

\* DrainJoin that takes a task out of the set whether it has finished or not
DrainJoin_Abort(k) ==
  /\ mainPc = "drain"
  /\ waited < DrainDeadlineTicks
  /\ k \in join_set
  /\ join_set' = join_set \ {k}
  /\ joins' = joins + 1
  /\ UNCHANGED <<pos, status, payload, brokerVars, consumerPc, cur, taskPc, permits,
                 highest_offset, periodicVars, lockVars, listenerVars, mainPc, waited,
                 drainStart, finalCommit, flushed, mapped, msgVars, pollVars, markVars>>

\* join_next() returned a finished task within 500 ms
DrainJoin(k) ==
  /\ mainPc = "drain"
  /\ waited < DrainDeadlineTicks
  /\ k \in join_set
  /\ taskPc[k] = "done"
  /\ join_set' = join_set \ {k}
  /\ joins' = joins + 1
  /\ UNCHANGED <<pos, status, payload, brokerVars, consumerPc, cur, taskPc, permits,
                 highest_offset, periodicVars, lockVars, listenerVars, mainPc, waited,
                 drainStart, finalCommit, flushed, mapped, msgVars, pollVars, markVars>>

\* DrainTimeout that does not count the wait
DrainTimeout_NoCount ==
  /\ mainPc = "drain"
  /\ waited < DrainDeadlineTicks
  /\ join_set # {}
  /\ \A k \in join_set : taskPc[k] # "done"
  /\ waited' = waited
  /\ UNCHANGED <<pos, status, payload, brokerVars, consumerPc, cur, taskVars,
                 highest_offset, periodicVars, lockVars, listenerVars, mainPc, joins,
                 drainStart, finalCommit, flushed, mapped, msgVars, pollVars, markVars>>

\* no task finished within 500 ms: waited += 500 ms
DrainTimeout ==
  /\ mainPc = "drain"
  /\ waited < DrainDeadlineTicks
  /\ join_set # {}
  /\ \A k \in join_set : taskPc[k] # "done"
  /\ waited' = waited + 1
  /\ UNCHANGED <<pos, status, payload, brokerVars, consumerPc, cur, taskVars,
                 highest_offset, periodicVars, lockVars, listenerVars, mainPc, joins,
                 drainStart, finalCommit, flushed, mapped, msgVars, pollVars, markVars>>

\* highest_offset.lock().await; an empty map ends the final commit phase
FinalLockHighest ==
  /\ mainPc = "final_highest"
  /\ highestLock = "free"
  /\ IF highest_offset = EmptyMap
       THEN /\ mainPc' = "unsub"
            /\ finalCommit' = "empty"
            /\ UNCHANGED highestLock
       ELSE /\ mainPc' = "final_t2c"
            /\ highestLock' = "shutdown"
            /\ UNCHANGED finalCommit
  /\ UNCHANGED <<pos, status, payload, brokerVars, consumerPc, cur, taskVars,
                 highest_offset, periodicVars, t2cLock, consumersLock, listenerVars,
                 waited, joins, drainStart, flushed, mapped, msgVars, pollVars, markVars>>

\* topic_to_consumer.lock().await
FinalLockT2c ==
  /\ mainPc = "final_t2c"
  /\ t2cLock = "free"
  /\ t2cLock' = "shutdown"
  /\ mainPc' = "final_consumers"
  /\ UNCHANGED <<pos, status, payload, brokerVars, consumerPc, cur, taskVars,
                 highest_offset, periodicVars, highestLock, consumersLock,
                 listenerVars, waited, joins, drainStart, finalCommit, flushed,
                 mapped, msgVars, pollVars, markVars>>

\* consumers.lock().await
FinalLockConsumers ==
  /\ mainPc = "final_consumers"
  /\ consumersLock = "free"
  /\ consumersLock' = "shutdown"
  /\ mainPc' = "final_commit"
  /\ UNCHANGED <<pos, status, payload, brokerVars, consumerPc, cur, taskVars,
                 highest_offset, periodicVars, highestLock, t2cLock, listenerVars,
                 waited, joins, drainStart, finalCommit, flushed, mapped, msgVars, pollVars, markVars>>

\* consumer.commit(&tpl, Sync) of map[p] + 1 for every entry; the three guards drop
FinalCommit(ok) ==
  /\ mainPc = "final_commit"
  /\ mapped
  /\ Commit(CommitList(highest_offset), ok)
  /\ finalCommit' = IF ok THEN "ok" ELSE "err"
  /\ flushed' = IF ok THEN CommitList(highest_offset) ELSE EmptyMap
  /\ highestLock' = "free"
  /\ t2cLock' = "free"
  /\ consumersLock' = "free"
  /\ mainPc' = "unsub"
  /\ UNCHANGED <<pos, status, payload, consumerPc, cur, taskVars, highest_offset,
                 periodicVars, listenerVars, waited, joins, drainStart, mapped,
                 msgVars, pollVars, markVars>>

\* no entry of the map carries a topic of topic_to_consumer: tpl.count() = 0 and
\* nothing is committed; the three guards drop
FinalNoCommit ==
  /\ mainPc = "final_commit"
  /\ ~mapped
  /\ finalCommit' = "empty"
  /\ highestLock' = "free"
  /\ t2cLock' = "free"
  /\ consumersLock' = "free"
  /\ mainPc' = "unsub"
  /\ UNCHANGED <<pos, status, payload, brokerVars, consumerPc, cur, taskVars,
                 highest_offset, periodicVars, listenerVars, waited, joins,
                 drainStart, flushed, mapped, msgVars, pollVars, markVars>>

\* consumers.lock().await; unsubscribe; consumer_shutdown and run return
Unsubscribe ==
  /\ mainPc = "unsub"
  /\ consumersLock = "free"
  /\ mainPc' = "stopped"
  /\ UNCHANGED <<pos, status, payload, brokerVars, consumerPc, cur, taskVars,
                 highest_offset, periodicVars, lockVars, listenerVars, waited, joins,
                 drainStart, finalCommit, flushed, mapped, msgVars, pollVars, markVars>>

\* ---- specification ----

Next ==
  \/ \E ok \in BOOLEAN : IndexesSetup(ok)
  \/ \E p \in Partitions, ok \in BOOLEAN : ConsumerRecvEmpty(p, ok)
  \/ \E p \in Partitions : ConsumerRecvBadUtf8(p)
  \/ \E ok \in BOOLEAN : ConsumerUtf8Dlq(ok)
  \/ \E p \in Partitions : ConsumerRecvAccepting(p)
  \/ \E p \in Partitions, kind \in Payloads : ConsumerRecvDraining(p, kind)
  \/ ConsumerSpawn
  \/ \E ok \in BOOLEAN : ConsumerInlineOk(ok)
  \/ \E ok \in BOOLEAN : ConsumerInlineErr(ok)
  \/ ConsumerRecvErr
  \/ ConsumerSleepDone
  \/ ConsumerBreak
  \/ \E k \in Keys, kind \in Payloads : TaskStart(k, kind)
  \/ \E k \in Keys, res \in {"ok", "err"} : TaskIndexed(k, res)
  \/ \E k \in Keys : TaskMark(k)
  \/ PeriodicTickEmpty
  \/ PeriodicTake
  \/ PeriodicLockT2c
  \/ PeriodicLockConsumers
  \/ PeriodicCommitOk
  \/ PeriodicCommitErr
  \/ PeriodicDrop
  \/ PeriodicRemerge
  \/ ListenerSignal
  \/ ListenerStore
  \/ \E ok \in BOOLEAN : ListenerPause(ok)
  \/ ListenerNotify
  \/ DrainEmpty
  \/ DrainDeadline
  \/ \E k \in Keys : DrainJoin(k)
  \/ DrainTimeout
  \/ FinalLockHighest
  \/ FinalLockT2c
  \/ FinalLockConsumers
  \/ \E ok \in BOOLEAN : FinalCommit(ok)
  \/ FinalNoCommit
  \/ Unsubscribe

Spec == Init /\ [][Next]_vars

\* The runtime keeps polling every task that can make progress, an HTTP call or
\* a DLQ publish returns within its timeout, and a mutex is granted once it is
\* free.  Nothing is assumed of the environment: message deliveries, receive
\* errors and the termination signal may or may not come.
ConsumerInline == \E ok \in BOOLEAN : ConsumerInlineOk(ok) \/ ConsumerInlineErr(ok)
PeriodicCommit == PeriodicCommitOk \/ PeriodicCommitErr
DrainStep == DrainEmpty \/ DrainDeadline \/ DrainTimeout \/ \E k \in Keys : DrainJoin(k)

Fairness ==
  /\ WF_vars(\E ok \in BOOLEAN : IndexesSetup(ok))
  /\ WF_vars(\E ok \in BOOLEAN : ConsumerUtf8Dlq(ok))
  /\ WF_vars(ConsumerSpawn)
  /\ WF_vars(ConsumerInline)
  /\ WF_vars(ConsumerSleepDone)
  /\ WF_vars(ConsumerBreak)
  /\ \A k \in Keys : WF_vars(\E kind \in Payloads : TaskStart(k, kind))
  /\ \A k \in Keys : WF_vars(\E res \in {"ok", "err"} : TaskIndexed(k, res))
  /\ \A k \in Keys : WF_vars(TaskMark(k))
  /\ WF_vars(PeriodicTake)
  /\ WF_vars(PeriodicLockT2c)
  /\ WF_vars(PeriodicLockConsumers)
  /\ WF_vars(PeriodicCommit)
  /\ WF_vars(PeriodicDrop)
  /\ WF_vars(PeriodicRemerge)
  /\ WF_vars(ListenerStore)
  /\ WF_vars(\E ok \in BOOLEAN : ListenerPause(ok))
  /\ WF_vars(ListenerNotify)
  /\ WF_vars(DrainStep)
  /\ WF_vars(FinalLockHighest)
  /\ WF_vars(FinalLockT2c)
  /\ WF_vars(FinalLockConsumers)
  /\ WF_vars(\E ok \in BOOLEAN : FinalCommit(ok))
  /\ WF_vars(FinalNoCommit)
  /\ WF_vars(Unsubscribe)

FairSpec == Spec /\ Fairness

\* Only the thread of run is scheduled: a spawned task may hang for ever.
DrainFairSpec == Spec /\ WF_vars(DrainStep)

\* ---- one delivery of one message, from msg.payload() to its last metric ----

\* serde_json::from_str::<UserCDCMessage>: key is a Vec and has no default, the
\* three other fields are Options
Parse(env) == env.json /\ "key" \in env.fields

\* Classify that looks at before first
Classify_BeforeFirst(env) ==
  IF "resolved" \in env.fields THEN "ack"
  ELSE IF "before" \in env.fields THEN "delete"
  ELSE IF "after" \in env.fields THEN "upsert"
  ELSE "invalid"

\* the classification of a parsed envelope
Classify(env) ==
  IF "resolved" \in env.fields THEN "ack"
  ELSE IF "after" \in env.fields THEN "upsert"
  ELSE IF "before" \in env.fields THEN "delete"
  ELSE "invalid"

\* the outcomes the retry policy calls permanent
PermanentOutcomes == {"failed", "canceled", "http_4xx"}

\* producer.send(.., 1 s): the record is in the DLQ topic or it is not
DlqResults == {"delivered", "failed"}

Min(a, b) == IF a <= b THEN a ELSE b

\* one thing the worker did for the delivery
Ev(e, a, b) == <<e, a, b>>

\* mark_offset_processed in a pool task, commit_message on the consumer loop
Advance == IF mMode = "accepting" THEN Ev("mark", "", "") ELSE Ev("commit", "", "")

MsgInit ==
  /\ ControllerInit
  /\ mapped = TRUE
  /\ mBytes \in {"null", "bad_utf8", "text"}
  /\ mEnv \in IF mBytes = "text" THEN Envelopes ELSE {[json |-> FALSE, fields |-> {}]}
  /\ mMode \in {"accepting", "draining"}
  /\ mPc = "recv"
  /\ tries = 0
  /\ backoff_ms = InitialBackoffMs
  /\ lastErr = "none"
  /\ mResult = "none"
  /\ mLog = <<>>
  /\ slept = <<>>
  /\ PollIdle
  /\ MarkIdle

\* MsgRecvNull that treats the missing payload as a failed message
MsgRecvNull_Failed ==
  /\ mPc = "recv"
  /\ mBytes = "null"
  /\ mLog' = mLog \o <<Ev("dlq", "empty_payload", "delivered"), Ev("commit", "", ""),
                       Ev("record_message_failed", "", "")>>
  /\ mPc' = "done"
  /\ UNCHANGED <<controllerVars, pollVars, markVars, mBytes, mEnv, mMode, tries, backoff_ms, lastErr,
                 mResult, slept>>

\* msg.payload() is None: commit_message, continue
MsgRecvNull ==
  /\ mPc = "recv"
  /\ mBytes = "null"
  /\ mLog' = Append(mLog, Ev("commit", "", ""))
  /\ mPc' = "done"
  /\ UNCHANGED <<controllerVars, pollVars, markVars, mBytes, mEnv, mMode, tries, backoff_ms, lastErr,
                 mResult, slept>>

\* from_utf8 fails
MsgRecvBadUtf8 ==
  /\ mPc = "recv"
  /\ mBytes = "bad_utf8"
  /\ lastErr' = "invalid_utf8"
  /\ mPc' = "dlq_utf8"
  /\ UNCHANGED <<controllerVars, pollVars, markVars, mBytes, mEnv, mMode, tries, backoff_ms, mResult,
                 mLog, slept>>

\* send_utf8_error_to_dlq (its result is dropped), commit_message,
\* record_message_failed, continue
MsgUtf8Dlq(res) ==
  /\ mPc = "dlq_utf8"
  /\ mLog' = mLog \o <<Ev("dlq", "original_bytes_base64", res), Ev("commit", "", ""),
                       Ev("record_message_failed", "", "")>>
  /\ mPc' = "done"
  /\ UNCHANGED <<controllerVars, pollVars, markVars, mBytes, mEnv, mMode, tries, backoff_ms, lastErr,
                 mResult, slept>>

\* from_utf8 succeeds: the text goes to usernames_message_processor, in a pool
\* task or inline
MsgRecvText ==
  /\ mPc = "recv"
  /\ mBytes = "text"
  /\ mPc' = "parse"
  /\ UNCHANGED <<controllerVars, pollVars, markVars, mBytes, mEnv, mMode, tries, backoff_ms, lastErr,
                 mResult, mLog, slept>>

\* the parse and the match on (after, before)
MsgParse ==
  /\ mPc = "parse"
  /\ IF ~Parse(mEnv)
       THEN mResult' = "err" /\ lastErr' = "deserialize" /\ mPc' = "result"
       ELSE CASE Classify(mEnv) = "ack" ->
                   mResult' = "ok" /\ mPc' = "result" /\ UNCHANGED lastErr
              [] Classify(mEnv) = "invalid" ->
                   mResult' = "err" /\ lastErr' = "invalid_cdc_message" /\ mPc' = "result"
              [] OTHER ->
                   mPc' = "attempt" /\ UNCHANGED <<mResult, lastErr>>
  /\ UNCHANGED <<controllerVars, pollVars, markVars, mBytes, mEnv, mMode, tries, backoff_ms, mLog, slept>>

\* after the failed call number n the processor returns the error when
\* n >= max_retries, whatever the error is, and sleeps for a retry otherwise
GivesUp(outcome, n) == n >= max_retries

\* MsgAttempt that gives up one failure later
MsgAttempt_OneMore(outcome) ==
  /\ mPc = "attempt"
  /\ tries' = tries + 1
  /\ mLog' = Append(mLog, Ev("submit", Classify(mEnv), outcome))
  /\ IF outcome = "succeeded"
       THEN mResult' = "ok" /\ mPc' = "result" /\ UNCHANGED lastErr
       ELSE /\ lastErr' = outcome
            /\ IF tries + 1 > max_retries
                 THEN mResult' = "err" /\ mPc' = "result"
                 ELSE mPc' = "sleep" /\ UNCHANGED mResult
  /\ UNCHANGED <<controllerVars, pollVars, markVars, mBytes, mEnv, mMode, backoff_ms, slept>>

\* one turn of the retry loop: tries += 1, the indexer call, and on an error
\* either the return of that error or the way to the sleep
MsgAttempt(outcome) ==
  /\ mPc = "attempt"
  /\ tries' = tries + 1
  /\ mLog' = Append(mLog, Ev("submit", Classify(mEnv), outcome))
  /\ IF outcome = "succeeded"
       THEN mResult' = "ok" /\ mPc' = "result" /\ UNCHANGED lastErr
       ELSE /\ lastErr' = outcome
            /\ IF GivesUp(outcome, tries + 1)
                 THEN mResult' = "err" /\ mPc' = "result"
                 ELSE mPc' = "sleep" /\ UNCHANGED mResult
  /\ UNCHANGED <<controllerVars, pollVars, markVars, mBytes, mEnv, mMode, backoff_ms, slept>>

\* sleep(backoff_ms); backoff_ms = backoff_ms.saturating_mul(2).min(5000): the
\* product of a value below 5000 does not saturate a u64
MsgSleep ==
  /\ mPc = "sleep"
  /\ slept' = Append(slept, backoff_ms)
  /\ backoff_ms' = Min(backoff_ms * 2, MaxBackoffMs)
  /\ mPc' = "attempt"
  /\ UNCHANGED <<controllerVars, pollVars, markVars, mBytes, mEnv, mMode, tries, lastErr, mResult, mLog>>

\* MsgResultOk that advances the offset once for every indexer call made
MsgResultOk_AdvancePerTry ==
  /\ mPc = "result"
  /\ mResult = "ok"
  /\ mLog' = mLog \o [i \in 1..Max(tries, 1) |-> Advance]
                  \o <<Ev("record_message_processed", "", "")>>
  /\ mPc' = "done"
  /\ UNCHANGED <<controllerVars, pollVars, markVars, mBytes, mEnv, mMode, tries, backoff_ms, lastErr,
                 mResult, slept>>

\* the processor returned Ok: the offset advances, record_message_processed
MsgResultOk ==
  /\ mPc = "result"
  /\ mResult = "ok"
  /\ mLog' = mLog \o <<Advance, Ev("record_message_processed", "", "")>>
  /\ mPc' = "done"
  /\ UNCHANGED <<controllerVars, pollVars, markVars, mBytes, mEnv, mMode, tries, backoff_ms, lastErr,
                 mResult, slept>>

\* MsgResultErr that advances the offset before the DLQ publish
MsgResultErr_AdvanceFirst(res) ==
  /\ mPc = "result"
  /\ mResult = "err"
  /\ mLog' = mLog \o <<Advance, Ev("dlq", lastErr, res),
                       Ev("record_message_failed", "", "")>>
  /\ mPc' = "done"
  /\ UNCHANGED <<controllerVars, pollVars, markVars, mBytes, mEnv, mMode, tries, backoff_ms, lastErr,
                 mResult, slept>>

\* the processor returned Err: send_processing_error_to_dlq with the payload and
\* the error (its result is dropped), the offset advances, record_message_failed
MsgResultErr(res) ==
  /\ mPc = "result"
  /\ mResult = "err"
  /\ mLog' = mLog \o <<Ev("dlq", lastErr, res), Advance,
                       Ev("record_message_failed", "", "")>>
  /\ mPc' = "done"
  /\ UNCHANGED <<controllerVars, pollVars, markVars, mBytes, mEnv, mMode, tries, backoff_ms, lastErr,
                 mResult, slept>>

MsgNext ==
  \/ MsgRecvNull
  \/ MsgRecvBadUtf8
  \/ \E res \in DlqResults : MsgUtf8Dlq(res)
  \/ MsgRecvText
  \/ MsgParse
  \/ \E outcome \in Outcomes : MsgAttempt(outcome)
  \/ MsgSleep
  \/ MsgResultOk
  \/ \E res \in DlqResults : MsgResultErr(res)

MsgSpec == MsgInit /\ [][MsgNext]_vars

\* ---- poll_task_until_complete: one task of the engine, polled ----

PollIntervalMs == 200
MaxWaitMs == 15000

\* the message of the error object of a failed task, when the task carries one
EngineMessages == {"none", "index_not_found"}

\* how a status request ends: no answer, an answer that is not 2xx, a body that
\* is not a Task, or a Task with its status (and its error message)
PollResponses ==
  [kind : {"send_error", "non_2xx", "bad_json", "succeeded", "canceled", "enqueued",
           "processing"}, message : {"none"}]
    \cup [kind : {"failed"}, message : EngineMessages]

PollInit ==
  /\ ControllerInit
  /\ mapped = TRUE
  /\ MsgIdle
  /\ pollPc = "loop"
  /\ pollWaited = 0
  /\ pollRequests = 0
  /\ pollRetries = 0
  /\ pollLast = "none"
  /\ pollResult = "none"
  /\ pollMsg = "none"
  /\ MarkIdle

\* waited >= max_wait at the head of the loop: Err(TimedOut "task_timeout")
PollTimeout ==
  /\ pollPc = "loop"
  /\ pollWaited >= MaxWaitMs
  /\ pollResult' = "poll_timeout"
  /\ pollMsg' = "meilisearch task polling exceeded max wait time"
  /\ pollPc' = "done"
  /\ UNCHANGED <<controllerVars, msgVars, markVars, pollWaited, pollRequests, pollRetries,
                 pollLast>>

\* PollRequest that takes a canceled task for a finished one
PollRequest_CanceledOk(resp) ==
  /\ pollPc = "loop"
  /\ pollWaited < MaxWaitMs
  /\ pollWaited' = pollWaited + PollIntervalMs
  /\ pollRequests' = pollRequests + 1
  /\ pollLast' = resp.kind
  /\ CASE resp.kind = "send_error" ->
            /\ pollResult' = "net_error"
            /\ pollMsg' = "failed to poll task status"
            /\ pollPc' = "done"
            /\ UNCHANGED pollRetries
       [] resp.kind = "non_2xx" ->
            UNCHANGED <<pollResult, pollMsg, pollPc, pollRetries>>
       [] resp.kind = "bad_json" ->
            /\ pollResult' = "decode_error"
            /\ pollMsg' = "failed to parse task response"
            /\ pollPc' = "done"
            /\ UNCHANGED pollRetries
       [] resp.kind \in {"succeeded", "canceled"} ->
            /\ pollResult' = "succeeded"
            /\ pollPc' = "done"
            /\ UNCHANGED <<pollMsg, pollRetries>>
       [] resp.kind = "failed" ->
            /\ pollResult' = "failed"
            /\ pollMsg' = IF resp.message = "none" THEN "unknown error" ELSE resp.message
            /\ pollPc' = "done"
            /\ UNCHANGED pollRetries
       [] resp.kind \in {"enqueued", "processing"} ->
            /\ pollRetries' = pollRetries + 1
            /\ UNCHANGED <<pollResult, pollMsg, pollPc>>
  /\ UNCHANGED <<controllerVars, msgVars, markVars>>

\* PollRequest that does not count the sleep before an answer that is not 2xx
PollRequest_Uncounted(resp) ==
  /\ pollPc = "loop"
  /\ pollWaited < MaxWaitMs
  /\ pollWaited' = IF resp.kind = "non_2xx" THEN pollWaited
                   ELSE pollWaited + PollIntervalMs
  /\ pollRequests' = pollRequests + 1
  /\ pollLast' = resp.kind
  /\ CASE resp.kind = "send_error" ->
            /\ pollResult' = "net_error"
            /\ pollMsg' = "failed to poll task status"
            /\ pollPc' = "done"
            /\ UNCHANGED pollRetries
       [] resp.kind = "non_2xx" ->
            UNCHANGED <<pollResult, pollMsg, pollPc, pollRetries>>
       [] resp.kind = "bad_json" ->
            /\ pollResult' = "decode_error"
            /\ pollMsg' = "failed to parse task response"
            /\ pollPc' = "done"
            /\ UNCHANGED pollRetries
       [] resp.kind = "succeeded" ->
            /\ pollResult' = "succeeded"
            /\ pollPc' = "done"
            /\ UNCHANGED <<pollMsg, pollRetries>>
       [] resp.kind = "failed" ->
            /\ pollResult' = "failed"
            /\ pollMsg' = IF resp.message = "none" THEN "unknown error" ELSE resp.message
            /\ pollPc' = "done"
            /\ UNCHANGED pollRetries
       [] resp.kind = "canceled" ->
            /\ pollResult' = "canceled"
            /\ pollMsg' = "meilisearch task was canceled"
            /\ pollPc' = "done"
            /\ UNCHANGED pollRetries
       [] resp.kind \in {"enqueued", "processing"} ->
            /\ pollRetries' = pollRetries + 1
            /\ UNCHANGED <<pollResult, pollMsg, pollPc>>
  /\ UNCHANGED <<controllerVars, msgVars, markVars>>

\* one turn of the loop below the deadline: sleep(poll_interval), waited +=
\* poll_interval, the GET of the task, and the match on what came back; the
\* message of a failed task is the engine's, or "unknown error"
PollRequest(resp) ==
  /\ pollPc = "loop"
  /\ pollWaited < MaxWaitMs
  /\ pollWaited' = pollWaited + PollIntervalMs
  /\ pollRequests' = pollRequests + 1
  /\ pollLast' = resp.kind
  /\ CASE resp.kind = "send_error" ->
            /\ pollResult' = "net_error"
            /\ pollMsg' = "failed to poll task status"
            /\ pollPc' = "done"
            /\ UNCHANGED pollRetries
       [] resp.kind = "non_2xx" ->
            UNCHANGED <<pollResult, pollMsg, pollPc, pollRetries>>
       [] resp.kind = "bad_json" ->
            /\ pollResult' = "decode_error"
            /\ pollMsg' = "failed to parse task response"
            /\ pollPc' = "done"
            /\ UNCHANGED pollRetries
       [] resp.kind = "succeeded" ->
            /\ pollResult' = "succeeded"
            /\ pollPc' = "done"
            /\ UNCHANGED <<pollMsg, pollRetries>>
       [] resp.kind = "failed" ->
            /\ pollResult' = "failed"
            /\ pollMsg' = IF resp.message = "none" THEN "unknown error" ELSE resp.message
            /\ pollPc' = "done"
            /\ UNCHANGED pollRetries
       [] resp.kind = "canceled" ->
            /\ pollResult' = "canceled"
            /\ pollMsg' = "meilisearch task was canceled"
            /\ pollPc' = "done"
            /\ UNCHANGED pollRetries
       [] resp.kind \in {"enqueued", "processing"} ->
            /\ pollRetries' = pollRetries + 1
            /\ UNCHANGED <<pollResult, pollMsg, pollPc>>
  /\ UNCHANGED <<controllerVars, msgVars, markVars>>

PollNext ==
  \/ PollTimeout
  \/ \E resp \in PollResponses : PollRequest(resp)

PollSpec == PollInit /\ [][PollNext]_vars

\* the client answers every request within its 10 s timeout, and the sleeps end
PollFairSpec == PollSpec /\ WF_vars(PollNext)

\* ---- mark_offset_processed: calls on one map ----

MarkPartitions == 1
MaxMarkOffset == 3

\* the topics of the keys
MarkTopics == {"users", "other"}

\* the keys of the map: (topic, partition)
MarkKeys == MarkTopics \X (0..(MarkPartitions - 1))

MarkInit ==
  /\ ControllerInit
  /\ mapped = TRUE
  /\ MsgIdle
  /\ PollIdle
  /\ MarkIdle

\* one call mark_offset_processed(topic, partition, offset)
MarkOffsetProcessed(key, o) ==
  /\ markPrev' = markMap
  /\ markCall' = <<key, o>>
  /\ markMap' = MarkOffset(markMap, key, o)
  /\ UNCHANGED <<controllerVars, msgVars, pollVars>>

MarkNext == \E key \in MarkKeys : \E o \in 0..MaxMarkOffset : MarkOffsetProcessed(key, o)

MarkSpec == MarkInit /\ [][MarkNext]_vars



\* ---- what the claims speak about ----

\* messages received whose handling has not reached a terminal state
InFlight == {k \in Keys : status[k] = "inflight"}

\* spawned tasks that have not finished
Unfinished == {k \in join_set : taskPc[k] # "done"}

\* pool tasks inside the indexer call, holding a permit
PoolExecuting == {k \in Keys : taskPc[k] = "index"}

\* the message the loop is processing inline in draining mode
InlineExecuting == IF consumerPc = "inline" THEN {cur} ELSE {}

\* offsets of partition p that were passed to mark_offset_processed
Marked(p) == {o \in Offsets : taskPc[<<p, o>>] = "done"}

\* the drain loop left through its deadline branch
TimedOut == mainPc \notin {"consumer", "drain"} /\ join_set # {}

\* ---- claims ----

\* C1: a committed cursor C of partition p means that every received message of
\* p with an offset below C has reached a terminal state.
C1_CommittedBelowAreTerminal ==
  \A p \in Partitions : \A o \in Offsets :
    (o < committed[p] /\ status[<<p, o>>] # "none") => status[<<p, o>>] = "terminal"

\* C2: the commit positions submitted for a partition never decrease: the last
\* one submitted is the highest one submitted so far.
C2_CommitsNeverRegress ==
  \A p \in Partitions : committed[p] >= maxCommitted[p]

\* C3: two messages of one partition that carry the same primary key are never
\* inside the indexer at the same time.
C3_NoSameKeyRace ==
  \A k1 \in PoolExecuting \cup InlineExecuting :
    \A k2 \in PoolExecuting \cup InlineExecuting :
      (k1 # k2 /\ k1[1] = k2[1]) => ~(payload[k1] \in DocOps /\ payload[k2] \in DocOps)

\* C10: the messages received and not yet finished (tasks of the lifecycle set
\* that are still running) never outnumber the permits of the pool.
C10_UnfinishedWithinCapacity ==
  Cardinality(Unfinished) <= SemaphoreCapacity


\* C4 as stated: the messages whose indexing is executing, pool tasks and the
\* message processed inline in draining mode taken together, never outnumber
\* the permits.
C4_ExecutingWithinCapacity ==
  Cardinality(PoolExecuting \cup InlineExecuting) <= SemaphoreCapacity

\* C4 as amended: the pool tasks inside the indexer never outnumber the permits;
\* the inline message of draining mode takes no permit, so the total is at most
\* one more.
C4_PoolWithinCapacity ==
  /\ Cardinality(PoolExecuting) <= SemaphoreCapacity
  /\ Cardinality(PoolExecuting \cup InlineExecuting) <= SemaphoreCapacity + 1

\* the pool is saturated while the loop processes a message inline
C4_Witness ==
  /\ Cardinality(PoolExecuting) = SemaphoreCapacity
  /\ InlineExecuting # {}

\* C6: after a clean shutdown (the drain loop found the lifecycle set empty, the
\* final commit did not fail) every offset recorded in the cursor is covered by
\* a commit submitted to the broker, and no commit goes beyond a terminal
\* message.
C6_CleanShutdownCommitsAll ==
  (mainPc = "stopped" /\ join_set = {} /\ finalCommit # "err") =>
    \A p \in Partitions :
      /\ \A o \in Marked(p) : o < maxCommitted[p]
      /\ \A o \in Offsets : o < maxCommitted[p] => status[<<p, o>>] # "none"

\* C7: when the drain deadline was reached, the positions the shutdown flush
\* committed do not exceed the offset of any message still in flight.
C7_InFlightStaysUncommitted ==
  (TimedOut /\ finalCommit = "ok") =>
    \A k \in InFlight : k[1] \in DOMAIN flushed => flushed[k[1]] <= k[2]


\* C5: once the termination signal was received, the partitions are paused and
\* notify_waiters() was called, the consumer loop exits, wherever the loop was
\* when the call was made.
C5_LoopExitsAfterSignal ==
  (listenerPc = "done" /\ paused) ~> (consumerPc = "exited")

\* the shutdown phases of run: 0 Running, 1 Draining, 2 Flushing, 3 Stopped
Phase ==
  CASE mainPc = "stopped" -> 3
    [] mainPc \in {"final_highest", "final_t2c", "final_consumers", "final_commit",
                   "unsub"} -> 2
    [] ~accepting -> 1
    [] OTHER -> 0

\* C8: the phases come in the order Running, Draining, Flushing, Stopped, one
\* after the other; the drain wait starts after the loop exited, the final
\* commit comes after the lifecycle set is empty or the deadline is reached,
\* and the unsubscribe comes after the final commit attempt.
C8_PhaseOrder ==
  /\ [](mainPc # "consumer" => consumerPc = "exited")
  /\ [](Phase >= 2 => (join_set = {} \/ waited >= DrainDeadlineTicks))
  /\ [](Phase = 3 => finalCommit # "none")
  /\ [][Phase' \in {Phase, Phase + 1}]_vars

\* a shutdown that joined tasks, committed and stopped
C8_Witness ==
  mainPc = "stopped" /\ finalCommit = "ok" /\ joins > 0

\* C9: the drain loop ends; each of its iterations joins one task or counts one
\* timed-out wait, it leaves only with the set empty or the deadline reached,
\* and it joins at most the tasks it started with and times out at most
\* DrainDeadlineTicks times.
C9_DrainTerminates ==
  /\ [](joins <= drainStart /\ waited <= DrainDeadlineTicks)
  /\ [](mainPc # "consumer" => joins + Cardinality(join_set) = drainStart)
  /\ [][(mainPc = "drain" /\ <<waited, joins, join_set>>' # <<waited, joins, join_set>>) =>
          \/ joins' = joins + 1 /\ waited' = waited /\ mainPc' = "drain"
          \/ waited' = waited + 1 /\ joins' = joins /\ mainPc' = "drain"]_vars
  /\ [][(mainPc = "drain" /\ mainPc' # "drain") =>
          (join_set = {} \/ waited >= DrainDeadlineTicks)]_vars
  /\ (mainPc = "drain") ~> (mainPc # "drain")

\* the drain loop joined a task, timed out to the deadline and left
C9_Witness ==
  mainPc = "final_highest" /\ joins > 0 /\ waited = DrainDeadlineTicks /\ join_set # {}


\* C11: an offset is in the offset map, in the snapshot of the flush or the
\* broker's commit position only when the message of that offset has reached
\* its terminal outcome; never before or during its indexer call.
C11_RecordedAfterTerminal ==
  \A p \in Partitions :
    /\ p \in DOMAIN highest_offset => status[<<p, highest_offset[p]>>] = "terminal"
    /\ p \in DOMAIN snapshot => status[<<p, snapshot[p]>>] = "terminal"
    /\ committed[p] > 0 => status[<<p, committed[p] - 1>>] = "terminal"

\* an offset recorded by a task and a position committed are both there
C11_Witness ==
  \E p \in Partitions : p \in DOMAIN highest_offset /\ committed[p] > 0

\* C12: after a commit error of the periodic flush every entry of the snapshot
\* is back in the live map with max semantics, and no live entry is lowered.
C12_ErrorMergesBack ==
  /\ [](periodicPc = "remerge" => snapshot # EmptyMap)
  /\ [][(periodicPc = "remerge" /\ periodicPc' # "remerge") =>
          /\ \A p \in DOMAIN snapshot :
               /\ p \in DOMAIN highest_offset'
               /\ highest_offset'[p] =
                    IF p \in DOMAIN highest_offset
                      THEN Max(snapshot[p], highest_offset[p]) ELSE snapshot[p]
          /\ \A p \in DOMAIN highest_offset :
               p \in DOMAIN highest_offset' /\ highest_offset'[p] >= highest_offset[p]]_vars

\* the commit failed while the live map already holds a higher offset of a
\* partition of the snapshot
C12_Witness ==
  /\ periodicPc = "remerge"
  /\ \E p \in DOMAIN snapshot \cap DOMAIN highest_offset : highest_offset[p] > snapshot[p]

\* C13: a flush that finds no consumer mapping for the topic commits nothing and
\* puts the offsets of the snapshot back into the live map.
C13_MissingMappingMergesBack ==
  [][(periodicPc = "commit" /\ ~mapped /\ periodicPc' # "commit") =>
       /\ committed' = committed
       /\ \A p \in DOMAIN snapshot :
            p \in DOMAIN highest_offset' /\ highest_offset'[p] >= snapshot[p]]_vars

\* C14: a tick with offsets takes the whole map and leaves it empty, the commit
\* that follows submits offset + 1 for every partition of the snapshot and for
\* no other, and no other step of the flush commits.
C14_TickTakesAllCommitsEach ==
  /\ [](periodicPc = "tick" => snapshot = EmptyMap)
  /\ [][(periodicPc = "tick" /\ periodicPc' # "tick") =>
          /\ highest_offset # EmptyMap
          /\ snapshot' = highest_offset
          /\ highest_offset' = EmptyMap]_vars
  /\ [][(periodicPc = "commit" /\ periodicPc' = "tick" /\ mapped) =>
          \A p \in Partitions :
            committed'[p] = IF p \in DOMAIN snapshot THEN snapshot[p] + 1
                            ELSE committed[p]]_vars
  /\ [][(periodicPc # "commit" /\ periodicPc' # periodicPc) =>
          committed' = committed]_vars

\* the flush committed the offset a task recorded: no other commit was made
C14_Witness ==
  \E p \in Partitions :
    /\ committed[p] = 1
    /\ taskPc[<<p, 0>>] = "done"
    /\ pos[p] = 1
    /\ periodicPc = "tick"
    /\ mainPc = "consumer"


\* what the worker did for the delivery, by kind
Events(e) == {i \in 1..Len(mLog) : mLog[i][1] = e}
DlqDelivered == {i \in Events("dlq") : mLog[i][3] = "delivered"}
Advances == Events("mark") \cup Events("commit")
ParseFails == mBytes = "text" /\ ~(mEnv.json /\ "key" \in mEnv.fields)

\* C15: a payload that is a JSON object with the one field resolved is
\* acknowledged: the offset advances, no indexer request, no DLQ publish.
C15_HeartbeatAcknowledged ==
  (mPc = "done" /\ mBytes = "text" /\ mEnv.json /\ mEnv.fields = {"resolved"}) =>
    /\ mResult = "ok"
    /\ Advances # {}
    /\ Events("submit") = {}
    /\ Events("dlq") = {}

\* C16: a parsed envelope takes exactly one of four ways, in this precedence:
\* resolved is acknowledged without indexer call, else after is an upsert, else
\* before is a delete, else the error that leads to the DLQ.
C16_ClassifyPrecedence ==
  (mPc = "done" /\ mBytes = "text" /\ ~ParseFails) =>
    IF "resolved" \in mEnv.fields
      THEN mResult = "ok" /\ Events("submit") = {} /\ Events("dlq") = {}
    ELSE IF "after" \in mEnv.fields
      THEN Events("submit") # {} /\ \A i \in Events("submit") : mLog[i][2] = "upsert"
    ELSE IF "before" \in mEnv.fields
      THEN Events("submit") # {} /\ \A i \in Events("submit") : mLog[i][2] = "delete"
    ELSE /\ mResult = "err"
         /\ lastErr = "invalid_cdc_message"
         /\ Events("submit") = {}
         /\ Cardinality(Events("dlq")) = 1

\* an envelope with after and before was handled
C16_Witness ==
  /\ mPc = "done"
  /\ mEnv.json
  /\ mEnv.fields = {"key", "after", "before"}
  /\ mResult = "ok"

\* C17: a permanent indexer failure ends the retry loop at once: the loop never
\* sleeps for a retry after one.
C17_PermanentEndsRetry ==
  mPc = "sleep" => lastErr \notin PermanentOutcomes

\* C18: at most max_retries indexer calls are made for a delivery; the error is
\* returned only after the last of them failed; the sleep before retry k is
\* InitialBackoffMs * 2^(k-1), at most MaxBackoffMs; after a success no further
\* call is made.
C18_BoundedRetry ==
  /\ [](tries <= max_retries /\ Cardinality(Events("submit")) = tries)
  /\ []((mResult = "err" /\ tries > 0) =>
          (tries = max_retries /\ mLog[tries][3] # "succeeded"))
  /\ []((mResult = "ok" /\ tries > 0) => mLog[tries][3] = "succeeded")
  /\ [](mPc \in {"result", "done"} /\ tries > 0 => Len(slept) = tries - 1)
  /\ [](\A k \in 1..Len(slept) :
          slept[k] = InitialBackoffMs * 2^(k - 1) /\ slept[k] <= MaxBackoffMs)
  /\ [][mResult # "none" => tries' = tries]_vars

\* two failures, two sleeps, and the third call succeeded
C18_Witness ==
  mPc = "done" /\ mResult = "ok" /\ tries = max_retries /\ Len(slept) = 2

\* C19: a delivery whose processing ended in error is followed by exactly one
\* DLQ publish that carries the last error, then by the advance of the offset
\* (mark in a pool task, commit in draining mode), then by one count of the
\* failure metric; the offset does not advance before the publish.
C19_ErrorDlqThenAdvance ==
  (mPc = "done" /\ mResult = "err") =>
    LET n == Len(mLog)
    IN /\ n >= 3
       /\ mLog[n - 2][1] = "dlq" /\ mLog[n - 2][2] = lastErr
       /\ mLog[n - 1] = Advance
       /\ mLog[n][1] = "record_message_failed"
       /\ Cardinality(Events("dlq")) = 1
       /\ Cardinality(Advances) = 1
       /\ Cardinality(Events("record_message_failed")) = 1
       /\ Events("record_message_processed") = {}

\* the retries were exhausted in draining mode and the delivery was closed
C19_Witness ==
  mPc = "done" /\ mResult = "err" /\ tries = max_retries /\ mMode = "draining"

\* C20: a delivery whose UTF-8 decode or envelope parse fails leaves exactly
\* one record in the DLQ topic.
C20_ExactlyOneDlqRecord ==
  (mPc = "done" /\ (mBytes = "bad_utf8" \/ ParseFails)) =>
    Cardinality(DlqDelivered) = 1

\* the DLQ publishes of the delivery that did not put a record in the topic
DlqFailed == {i \in Events("dlq") : mLog[i][3] = "failed"}

\* C21: a DLQ publish that fails does not keep the offset from advancing, and
\* the failure of the publish is surfaced: a log entry and a count of a metric
\* of its own stand in what the worker did for the delivery.
C21_PublishFailureSurfaced ==
  (mPc = "done" /\ DlqFailed # {}) =>
    /\ Cardinality(Advances) = 1
    /\ Events("log_dlq_publish_failed") # {}
    /\ Events("record_dlq_publish_failed") # {}

\* C22: a payload that is not valid UTF-8 puts one record with the base64 of
\* the bytes in the DLQ topic, its offset is committed by the loop at once, the
\* failure metric counts one, no indexer call is made and no task records the
\* offset.
C22_BadUtf8DeadLettered ==
  (mPc = "done" /\ mBytes = "bad_utf8") =>
    /\ Cardinality(DlqDelivered) = 1
    /\ \A i \in Events("dlq") : mLog[i][2] = "original_bytes_base64"
    /\ Cardinality(Events("commit")) = 1
    /\ Cardinality(Events("record_message_failed")) = 1
    /\ Events("submit") = {}
    /\ Events("mark") = {}
    /\ Events("record_message_processed") = {}

\* C23: a message without payload (msg.payload() is None, the case the loop
\* calls an empty payload) is acknowledged by a commit of its offset and by
\* nothing else: no indexer call, no DLQ publish, no task that records the
\* offset, no metric.
C23_EmptyPayloadAcknowledged ==
  (mPc = "done" /\ mBytes = "null") =>
    /\ mLog = <<Ev("commit", "", "")>>
    /\ tries = 0
    /\ mResult = "none"

\* a message without payload was closed while the pool was accepting tasks
C23_Witness ==
  mPc = "done" /\ mBytes = "null" /\ mMode = "accepting"

\* C28: once task_accepting is false no task enters the lifecycle set, the
\* messages received from then on are processed inline, and the flag stays
\* false; also when the loop read the flag as true just before the store.
C28_NoSpawnAfterFlagCleared ==
  /\ [][~accepting => join_set' \subseteq join_set]_vars
  /\ [][~accepting => ~accepting']_vars

\* C30: a task of the lifecycle set that has finished is removed from the set,
\* also when no shutdown signal ever comes.
C30_FinishedTasksLeaveSet ==
  \A k \in Keys : (k \in join_set /\ taskPc[k] = "done") ~> (k \notin join_set)

\* the offset of message k was passed to mark_offset_processed by its task or
\* to commit_message by the loop
Recorded(k) ==
  \/ taskPc[k] = "done"
  \/ status[k] = "terminal" /\ taskPc[k] = "none"

MetricsShutdownSent == listenerPc \notin {"off", "wait"}
PauseAttempted == listenerPc \in {"notify", "done"}

\* C29: after the signal the listener notifies the watch channel, then sets
\* task_accepting to false, then pauses the partitions, and only then wakes the
\* loop; a message the loop receives while draining is not spawned, and one it
\* processes inline reaches its terminal state before the loop receives
\* another message or exits.
C29_ShutdownOrderInlineDrain ==
  /\ [](~accepting => MetricsShutdownSent)
  /\ []((PauseAttempted \/ paused) => ~accepting)
  /\ [](wakeup => listenerPc = "done")
  /\ [][(wakeup' /\ ~wakeup) => (listenerPc = "notify" /\ ~accepting)]_vars
  /\ [](consumerPc = "inline" => (~accepting /\ status[cur] = "inflight"))
  /\ [][(~accepting /\ pos' # pos) => consumerPc' # "spawn"]_vars
  /\ [][consumerPc = "inline" => (pos' = pos /\ mainPc' = mainPc)]_vars
  /\ [][(consumerPc = "inline" /\ consumerPc' # "inline") =>
          (consumerPc' = "select" /\ status'[cur] = "terminal")]_vars

\* the loop processes a message inline after the listener has finished
C29_Witness ==
  consumerPc = "inline" /\ listenerPc = "done" /\ ~paused

\* indexes_setup has not returned Ok
SetupPending == consumerPc \in {"ensure_primary", "ensure_dlq", "failed"}

\* C26: until both indexes are ensured nothing is received, indexed or
\* committed and neither the listener nor the flush nor the loop runs; the loop
\* starts only after the DLQ mirror was ensured, and after a failed ensure run
\* has returned and nothing is started.
C26_NothingBeforeIndexesEnsured ==
  /\ [](SetupPending =>
         /\ \A p \in Partitions : pos[p] = 0 /\ committed[p] = 0
         /\ \A k \in Keys : status[k] = "none" /\ taskPc[k] = "none"
         /\ join_set = {}
         /\ listenerPc = "off"
         /\ periodicPc = "off")
  /\ [][(SetupPending /\ ~SetupPending') => consumerPc = "ensure_dlq"]_vars
  /\ [][consumerPc = "failed" => consumerPc' = "failed"]_vars

\* an ensure_index_exists failed and run returned the error
C26_Witness ==
  consumerPc = "failed" /\ listenerPc = "off" /\ periodicPc = "off"

\* C24: each task status has one outcome: Succeeded returns Ok, Failed returns
\* an error with the engine's message, Canceled returns an error, Enqueued and
\* Processing go on polling and count the retry metric once each; Ok is
\* returned only when the last answer was Succeeded.
C24_StatusToOutcome ==
  /\ [](pollResult = "succeeded" => pollLast = "succeeded")
  /\ [](pollLast = "succeeded" => (pollPc = "done" /\ pollResult = "succeeded"))
  /\ [](pollLast = "failed" =>
         (pollPc = "done" /\ pollResult = "failed" /\ pollMsg # "none"))
  /\ [](pollLast = "canceled" => (pollPc = "done" /\ pollResult = "canceled"))
  /\ [][\A m \in EngineMessages \ {"none"} :
          PollRequest([kind |-> "failed", message |-> m]) => pollMsg' = m]_vars
  /\ [][pollRequests' = pollRequests + 1 =>
          IF pollLast' \in {"enqueued", "processing"}
            THEN pollRetries' = pollRetries + 1 /\ pollPc' = "loop"
            ELSE pollRetries' = pollRetries]_vars
  /\ [][pollRequests' = pollRequests => pollRetries' = pollRetries]_vars

\* a task that was seen enqueued and processing and then failed with the
\* engine's message
C24_Witness ==
  /\ pollPc = "done"
  /\ pollResult = "failed"
  /\ pollMsg = "index_not_found"
  /\ pollRetries = 2

\* C25: the poll ends: it sends at most MaxWaitMs / PollIntervalMs = 75 status
\* requests, and when none of them brought a terminal status or an error of
\* the request it returns the timeout error, which the processor answers with
\* a retry as long as it has calls left.
C25_PollTerminates ==
  /\ [](pollRequests <= MaxWaitMs \div PollIntervalMs)
  /\ [](pollWaited = pollRequests * PollIntervalMs /\ pollWaited <= MaxWaitMs)
  /\ []((pollPc = "done" /\ pollLast \in {"none", "enqueued", "processing", "non_2xx"}) =>
         (pollResult = "poll_timeout" /\ pollWaited = MaxWaitMs))
  /\ [](pollResult = "poll_timeout" =>
         \A n \in 1..(max_retries - 1) : ~GivesUp("poll_timeout", n))
  /\ <>(pollPc = "done")

\* the deadline was reached after 75 requests
C25_Witness ==
  /\ pollPc = "done"
  /\ pollResult = "poll_timeout"
  /\ pollRequests = 75
  /\ pollRetries > 0

\* periodic_commit holds both directories and waits for the offset map
PeriodicWaitsForMap ==
  /\ periodicPc = "remerge"
  /\ t2cLock = "periodic"
  /\ consumersLock = "periodic"
  /\ highestLock # "free"

\* consumer_shutdown holds the offset map and waits for the topic directory
ShutdownWaitsForDirectory ==
  /\ mainPc = "final_t2c"
  /\ highestLock = "shutdown"
  /\ t2cLock # "free"

\* C34: the periodic flush and the shutdown flush never wait for each other:
\* no state has the periodic flush holding the two directories and waiting for
\* the offset map while consumer_shutdown holds the map and waits for the
\* topic directory.
C34_NoFlushDeadlock ==
  ~(PeriodicWaitsForMap /\ ShutdownWaitsForDirectory)

\* C35: an offset passed to mark_offset_processed is accounted for: it is at
\* most the live map entry of its partition, or at most the entry of the
\* snapshot that is being committed, or below a position already submitted to
\* the broker.
C35_MarkedStaysAccounted ==
  \A p \in Partitions : \A o \in Marked(p) :
    \/ p \in DOMAIN highest_offset /\ o <= highest_offset[p]
    \/ p \in DOMAIN snapshot /\ o <= snapshot[p]
    \/ o < maxCommitted[p]

\* C32: a worker that stops now and is restarted replays each partition from
\* its committed position; the index then holds what the whole log gives only
\* if every document operation that has not been applied yet lies at or after
\* that position.
C32_ReplayCoversUnapplied ==
  \A k \in Keys :
    (status[k] = "inflight" /\ payload[k] \in DocOps) => k[2] >= committed[k[1]]

\* the order of the positions of a pool task
TaskRank(pc) ==
  CASE pc = "none" -> 0
    [] pc = "acquire" -> 1
    [] pc = "index" -> 2
    [] pc = "mark" -> 3
    [] pc = "done" -> 4

\* C31: from the shutdown signal to the end of the drain wait no task is
\* cancelled: a task only moves forward, it leaves the lifecycle set only after
\* it has finished and recorded its offset, and the drain wait ends with every
\* task finished or with the deadline reached.
C31_NoTaskCancelledInDrain ==
  /\ [][\A k \in Keys : TaskRank(taskPc'[k]) >= TaskRank(taskPc[k])]_vars
  /\ [][\A k \in join_set \ join_set' :
          taskPc[k] = "done" /\ status[k] = "terminal"]_vars
  /\ [][(mainPc = "drain" /\ mainPc' # "drain") =>
          \/ \A k \in Keys : taskPc[k] \in {"none", "done"}
          \/ waited >= DrainDeadlineTicks]_vars

\* the drain wait joined a finished task and ended at the deadline while
\* another task was still running
C31_Witness ==
  /\ mainPc = "final_highest"
  /\ joins > 0
  /\ \E k \in join_set : taskPc[k] \in {"acquire", "index", "mark"}

\* pool tasks that hold a permit
PermitHolders == {k \in Keys : taskPc[k] \in {"index", "mark"}}

\* C36: the permits are conserved: the free permits and the permits held by
\* tasks add up to the capacity; a task takes one permit before the processor
\* runs and gives it back when it ends; while the loop runs no task that holds
\* a permit is blocked, so that a pool without a free permit gets one back.
C36_PermitsConserved ==
  /\ [](permits + Cardinality(PermitHolders) = SemaphoreCapacity)
  /\ [](permits \in 0..SemaphoreCapacity)
  /\ [][\A k \in Keys : (taskPc[k] = "acquire" /\ taskPc'[k] # "acquire") =>
          (permits > 0 /\ permits' = permits - 1)]_vars
  /\ [][\A k \in Keys : (taskPc[k] # "done" /\ taskPc'[k] = "done") =>
          (k \in PermitHolders /\ permits' = permits + 1)]_vars
  /\ [](mainPc = "consumer" =>
         \A k \in PermitHolders :
           \/ ENABLED (\E res \in {"ok", "err"} : TaskIndexed(k, res))
           \/ ENABLED TaskMark(k))

\* a task ended after an indexer call and its permit is free again while
\* another task holds one
C36_Witness ==
  /\ \E k \in Keys : taskPc[k] = "done"
  /\ PermitHolders # {}
  /\ permits = SemaphoreCapacity - 1

\* C37: each delivery of a text payload advances its offset exactly once: one
\* mark_offset_processed by the pool task, or one commit_message by the loop in
\* draining mode, on the success way or on the error way, and never before the
\* processor has returned, however many indexer calls the processor made.
C37_AdvancedExactlyOnce ==
  /\ []((mBytes = "text" /\ mPc = "done") =>
         /\ Cardinality(Advances) = 1
         /\ mMode = "accepting" => (Cardinality(Events("mark")) = 1 /\ Events("commit") = {})
         /\ mMode = "draining" => (Cardinality(Events("commit")) = 1 /\ Events("mark") = {})
         /\ Cardinality(Events("record_message_processed")
                          \cup Events("record_message_failed")) = 1)
  /\ []((mBytes = "text" /\ mPc # "done") => Advances = {})

\* the third indexer call succeeded and the pool task recorded the offset
C37_Witness ==
  /\ mPc = "done"
  /\ mBytes = "text"
  /\ mMode = "accepting"
  /\ mResult = "ok"
  /\ tries = max_retries
  /\ Cardinality(Events("mark")) = 1

\* the entry of a key, an absent one read as -1
MarkEntry(map, key) == IF key \in DOMAIN map THEN map[key] ELSE -1

\* C33: after mark_offset_processed(t, p, o) the entry of (t, p) is the maximum
\* of its previous value and o, an absent entry counting as -1: the entry is
\* there, it is not lower than before, and every other key has the entry it
\* had, present or absent.
C33_MarkIsMaxMerge ==
  markCall # <<>> =>
    LET key == markCall[1]
        o == markCall[2]
    IN /\ key \in DOMAIN markMap
       /\ markMap[key] = Max(MarkEntry(markPrev, key), o)
       /\ markMap[key] >= MarkEntry(markPrev, key)
       /\ DOMAIN markMap = DOMAIN markPrev \cup {key}
       /\ \A q \in DOMAIN markMap \ {key} : markMap[q] = markPrev[q]

\* a call with an offset below the entry of its key, with another key present
C33_Witness ==
  /\ markCall # <<>>
  /\ markCall[1] \in DOMAIN markPrev
  /\ markCall[2] < markPrev[markCall[1]]
  /\ DOMAIN markPrev # {markCall[1]}

====
